---- MODULE Spec2Model ----
(***************************************************************************)
(* A model of the fasta crate: the streaming record decoder (read.rs),     *)
(* accession extraction (helpers.rs), the offset index builder and its     *)
(* JSON persistence (index.rs) and index-driven retrieval (pieces.rs,      *)
(* map.rs).                                                                *)
(*                                                                         *)
(* Text is modelled as a sequence of one-character strings; a file is the  *)
(* sequence of its bytes and a byte offset o addresses bytes[o + 1].       *)
(***************************************************************************)
EXTENDS Integers, Sequences, FiniteSets, TLC

VARIABLES
    file,       \* the bytes the path holds on disk
    gz,         \* TRUE when the path's extension is "gz"
    reader,     \* the FastaReader: its phase, line cursor, description, seq_buf
    yielded,    \* the records a caller's for loop has received so far
    lastRet,    \* what the latest FastaReader::next call returned
    extra,      \* number of next() calls made after the first None
    idx,        \* the outcome of FastaIndex::new
    out,        \* the outcome of the latest retrieval call
    line,       \* seq_id_from_description: argument `line`
    separator,  \* seq_id_from_description: argument `separator`
    id_index,   \* seq_id_from_description: argument `id_index`
    result,     \* seq_id_from_description: the outcome of the call
    jidx,       \* the FastaIndex handed to to_json
    jfile,      \* the text of the index file written by to_json
    jloaded     \* the outcome of FastaIndex::from_json on that file

vars == <<file, gz, reader, yielded, lastRet, extra, idx, out,
          line, separator, id_index, result, jidx, jfile, jloaded>>

readerVars == <<reader, yielded, lastRet, extra>>
indexVars == <<gz, idx, out>>
idVars == <<line, separator, id_index, result>>
jsonVars == <<jidx, jfile, jloaded>>

----------------------------------------------------------------------------
(* Bounds of the model.                                                    *)

\* longest source file, in bytes
MaxLen == 5
\* next() calls made after the iterator first returned None
MaxExtraCalls == 2

\* the bytes a source file is made of: the record marker, a field
\* separator, a residue letter and the two line-terminator bytes
Alphabet == {">", "|", "A", "\n", "\r"}

Files == UNION {[1..n -> Alphabet] : n \in 0..MaxLen}

----------------------------------------------------------------------------
(* Option values and line reading.                                         *)

None == [some |-> FALSE, val |-> <<>>]
Some(v) == [some |-> TRUE, val |-> v]

\* str::starts_with('>')
StartsWithMarker(s) == Len(s) >= 1 /\ s[1] = ">"

\* BufRead::read_line from byte offset pos: the offset just past the line,
\* which ends with its "\n" or at end of file
RECURSIVE LineEnd(_, _)
LineEnd(bytes, pos) ==
    IF pos >= Len(bytes) THEN Len(bytes)
    ELSE IF bytes[pos + 1] = "\n" THEN pos + 1
    ELSE LineEnd(bytes, pos + 1)

\* BufRead::read_line: the line as read, terminator included
ReadLine(bytes, pos) == SubSeq(bytes, pos + 1, LineEnd(bytes, pos))

\* io::Lines::next strips one trailing "\n" and then one trailing "\r"
StripEol(s) ==
    IF Len(s) >= 1 /\ s[Len(s)] = "\n"
    THEN LET t == SubSeq(s, 1, Len(s) - 1)
         IN IF Len(t) >= 1 /\ t[Len(t)] = "\r" THEN SubSeq(t, 1, Len(t) - 1) ELSE t
    ELSE s

\* io::Lines::next at byte offset pos (None when no byte is left)
LinesNext(bytes, pos) ==
    IF pos >= Len(bytes) THEN None ELSE Some(StripEol(ReadLine(bytes, pos)))

----------------------------------------------------------------------------
(* read.rs: FastaReader                                                    *)

Unopened == [phase |-> "unopened", pos |-> 0, description |-> None, seq_buf |-> <<>>]

\* FastaReader::new: skip lines until the first description line; panic
\* when the input ends before one is found
RECURSIVE FindFirstDescription(_, _)
FindFirstDescription(bytes, pos) ==
    LET l == LinesNext(bytes, pos)
    IN IF ~l.some
       THEN [phase |-> "panicked", pos |-> pos, description |-> None, seq_buf |-> <<>>]
       ELSE IF StartsWithMarker(l.val)
       THEN [phase |-> "ready", pos |-> LineEnd(bytes, pos),
             description |-> Some(l.val), seq_buf |-> <<>>]
       ELSE FindFirstDescription(bytes, LineEnd(bytes, pos))

FastaReader_new(bytes) == FindFirstDescription(bytes, 0)

\* the loop of Iterator::next with the final match on seq_buf.len() left
\* out: at the end of the input the pending record is handed out whatever
\* the buffer holds
RECURSIVE NextLoop_NoLenMatch(_, _, _, _)
NextLoop_NoLenMatch(bytes, pos, description, seq_buf) ==
    LET l == LinesNext(bytes, pos)
    IN IF ~l.some
       THEN [ret |-> Some(<<description.val, seq_buf>>),
             rd |-> [phase |-> "ready", pos |-> pos,
                     description |-> description, seq_buf |-> seq_buf]]
       ELSE IF StartsWithMarker(l.val)
       THEN [ret |-> Some(<<description.val, seq_buf>>),
             rd |-> [phase |-> "ready", pos |-> LineEnd(bytes, pos),
                     description |-> Some(l.val), seq_buf |-> seq_buf]]
       ELSE NextLoop_NoLenMatch(bytes, LineEnd(bytes, pos), description,
                                seq_buf \o l.val)

\* the body of Iterator::next after seq_buf.clear(): the while-let loop
\* over the remaining lines and the final match on seq_buf.len()
RECURSIVE NextLoop(_, _, _, _)
NextLoop(bytes, pos, description, seq_buf) ==
    LET l == LinesNext(bytes, pos)
    IN IF ~l.some
       THEN [ret |-> IF Len(seq_buf) = 0 THEN None
                     ELSE Some(<<description.val, seq_buf>>),
             rd |-> [phase |-> "ready", pos |-> pos,
                     description |-> description, seq_buf |-> seq_buf]]
       ELSE IF StartsWithMarker(l.val)
       THEN [ret |-> Some(<<description.val, seq_buf>>),
             rd |-> [phase |-> "ready", pos |-> LineEnd(bytes, pos),
                     description |-> Some(l.val), seq_buf |-> seq_buf]]
       ELSE NextLoop(bytes, LineEnd(bytes, pos), description, seq_buf \o l.val)

\* Iterator::next with the seq_buf.clear() of its first line left out
FastaReader_next_NoClear(bytes, rd) ==
    NextLoop(bytes, rd.pos, rd.description, rd.seq_buf)

\* Iterator::next for FastaReader
FastaReader_next(bytes, rd) == NextLoop(bytes, rd.pos, rd.description, <<>>)

\* next() called on a reader until it returns None: the records it hands
\* out, in order
RECURSIVE NextUntilNone(_, _, _)
NextUntilNone(bytes, rd, acc) ==
    LET r == FastaReader_next(bytes, rd)
    IN IF r.ret.some THEN NextUntilNone(bytes, r.rd, Append(acc, r.ret.val)) ELSE acc

\* FastaReader::new(path) and then every record of the reader; no reader
\* and no record when new panics
ReaderRecords(bytes) ==
    LET rd == FastaReader_new(bytes)
    IN IF rd.phase = "ready"
       THEN [ok |-> TRUE, records |-> NextUntilNone(bytes, rd, <<>>)]
       ELSE [ok |-> FALSE, records |-> <<>>]

----------------------------------------------------------------------------
(* helpers.rs: accession extraction                                        *)

\* the outcome of a call that returns text or panics
Returned(v) == [ok |-> TRUE, val |-> v, panic |-> ""]
Panicked(why) == [ok |-> FALSE, val |-> <<>>, panic |-> why]

\* the 1-based positions at which `pat` occurs in `s` (pat is not empty)
MatchesIn(s, pat) ==
    {i \in 1..(Len(s) - Len(pat) + 1) : SubSeq(s, i, i + Len(pat) - 1) = pat}

\* str::contains(separator)
Contains(s, pat) == MatchesIn(s, pat) # {}

\* str::split(separator).collect(): cut at the leftmost match, then split
\* what follows it
RECURSIVE Split(_, _)
Split(s, pat) ==
    IF ~Contains(s, pat) THEN <<s>>
    ELSE LET i == CHOOSE m \in MatchesIn(s, pat) : \A k \in MatchesIn(s, pat) : m <= k
         IN <<SubSeq(s, 1, i - 1)>> \o Split(SubSeq(s, i + Len(pat), Len(s)), pat)

\* &s[1..]: panics on the empty string
SliceFrom1(s) ==
    IF Len(s) < 1 THEN Panicked("byte index 1 is out of bounds")
    ELSE Returned(SubSeq(s, 2, Len(s)))

\* seq_id_from_description with field id_index + 1 taken for id_index
seq_id_from_description_OffByOne(l, sep, i) ==
    IF Contains(l, sep)
    THEN LET fields == Split(l, sep)
         IN IF i + 2 > Len(fields) THEN Panicked("index out of bounds")
            ELSE Returned(fields[i + 2])
    ELSE SliceFrom1(l)

\* seq_id_from_description(line, separator, id_index)
seq_id_from_description(l, sep, i) ==
    IF Contains(l, sep)
    THEN LET fields == Split(l, sep)
         IN IF i = 0 THEN SliceFrom1(fields[1])
            ELSE IF i + 1 > Len(fields) THEN Panicked("index out of bounds")
            ELSE Returned(fields[i + 1])
    ELSE SliceFrom1(l)

----------------------------------------------------------------------------
(* read.rs: FastaHandle, and the bytes a path holds on disk                *)

\* A byte is written as the character it encodes ("A", ">", "\n") or, as
\* "0xNN", by its value; bytes from 0x80 on are always written by value.

\* the first three bytes of a gzip member (RFC 1952: magic 1f 8b, method
\* 08); the flags, mtime, OS byte, payload and trailer after them differ
\* from writer to writer and from text to text
GzMagic == <<"0x1f", "0x8b", "0x08">>

\* UTF-8 continuation bytes 80..bf
Continuation ==
    {"0x80", "0x81", "0x82", "0x83", "0x84", "0x85", "0x86", "0x87",
     "0x88", "0x89", "0x8a", "0x8b", "0x8c", "0x8d", "0x8e", "0x8f",
     "0x90", "0x91", "0x92", "0x93", "0x94", "0x95", "0x96", "0x97",
     "0x98", "0x99", "0x9a", "0x9b", "0x9c", "0x9d", "0x9e", "0x9f",
     "0xa0", "0xa1", "0xa2", "0xa3", "0xa4", "0xa5", "0xa6", "0xa7",
     "0xa8", "0xa9", "0xaa", "0xab", "0xac", "0xad", "0xae", "0xaf",
     "0xb0", "0xb1", "0xb2", "0xb3", "0xb4", "0xb5", "0xb6", "0xb7",
     "0xb8", "0xb9", "0xba", "0xbb", "0xbc", "0xbd", "0xbe", "0xbf"}

\* lead bytes of two-byte characters, c2..df
Lead2 ==
    {"0xc2", "0xc3", "0xc4", "0xc5", "0xc6", "0xc7", "0xc8", "0xc9",
     "0xca", "0xcb", "0xcc", "0xcd", "0xce", "0xcf", "0xd0", "0xd1",
     "0xd2", "0xd3", "0xd4", "0xd5", "0xd6", "0xd7", "0xd8", "0xd9",
     "0xda", "0xdb", "0xdc", "0xdd", "0xde", "0xdf"}

\* lead bytes of three-byte characters, e0..ef
Lead3 ==
    {"0xe0", "0xe1", "0xe2", "0xe3", "0xe4", "0xe5", "0xe6", "0xe7",
     "0xe8", "0xe9", "0xea", "0xeb", "0xec", "0xed", "0xee", "0xef"}

\* lead bytes of four-byte characters, f0..f4
Lead4 == {"0xf0", "0xf1", "0xf2", "0xf3", "0xf4"}

\* the second bytes a lead byte admits (no overlong forms, no surrogates,
\* nothing above U+10FFFF)
SecondBytes(lead) ==
    IF lead = "0xe0" THEN {c \in Continuation : c \notin
                             {"0x80", "0x81", "0x82", "0x83", "0x84", "0x85", "0x86", "0x87",
                              "0x88", "0x89", "0x8a", "0x8b", "0x8c", "0x8d", "0x8e", "0x8f",
                              "0x90", "0x91", "0x92", "0x93", "0x94", "0x95", "0x96", "0x97",
                              "0x98", "0x99", "0x9a", "0x9b", "0x9c", "0x9d", "0x9e", "0x9f"}}
    ELSE IF lead = "0xed" THEN
                          {"0x80", "0x81", "0x82", "0x83", "0x84", "0x85", "0x86", "0x87",
                           "0x88", "0x89", "0x8a", "0x8b", "0x8c", "0x8d", "0x8e", "0x8f",
                           "0x90", "0x91", "0x92", "0x93", "0x94", "0x95", "0x96", "0x97",
                           "0x98", "0x99", "0x9a", "0x9b", "0x9c", "0x9d", "0x9e", "0x9f"}
    ELSE IF lead = "0xf0" THEN {c \in Continuation : c \notin
                             {"0x80", "0x81", "0x82", "0x83", "0x84", "0x85", "0x86", "0x87",
                              "0x88", "0x89", "0x8a", "0x8b", "0x8c", "0x8d", "0x8e", "0x8f"}}
    ELSE IF lead = "0xf4" THEN
                          {"0x80", "0x81", "0x82", "0x83", "0x84", "0x85", "0x86", "0x87",
                           "0x88", "0x89", "0x8a", "0x8b", "0x8c", "0x8d", "0x8e", "0x8f"}
    ELSE Continuation

\* core::str::from_utf8 on s from byte i on: every byte is a one-byte
\* character or part of a well-formed longer one (c0, c1, f5..ff and stray
\* continuation bytes are in neither)
RECURSIVE Utf8From(_, _)
Utf8From(s, i) ==
    IF i > Len(s) THEN TRUE
    ELSE IF s[i] \in Lead2
    THEN i + 1 <= Len(s) /\ s[i + 1] \in Continuation /\ Utf8From(s, i + 2)
    ELSE IF s[i] \in Lead3
    THEN /\ i + 2 <= Len(s)
         /\ s[i + 1] \in SecondBytes(s[i]) /\ s[i + 2] \in Continuation
         /\ Utf8From(s, i + 3)
    ELSE IF s[i] \in Lead4
    THEN /\ i + 3 <= Len(s)
         /\ s[i + 1] \in SecondBytes(s[i]) /\ s[i + 2] \in Continuation
         /\ s[i + 3] \in Continuation
         /\ Utf8From(s, i + 4)
    ELSE IF s[i] \in Continuation
                \cup {"0xc0", "0xc1", "0xf5", "0xf6", "0xf7", "0xf8", "0xf9",
                      "0xfa", "0xfb", "0xfc", "0xfd", "0xfe", "0xff"}
    THEN FALSE
    ELSE Utf8From(s, i + 1)

\* String::from_utf8 succeeds on the bytes of a line
ValidUtf8(s) == Utf8From(s, 1)

----------------------------------------------------------------------------
(* index.rs: FastaIndex::new                                               *)

NoIndex == [kind |-> "none", why |-> "", id |-> <<>>, id_to_offset |-> <<>>]
IndexBuilt(m) == [kind |-> "ok", why |-> "", id |-> <<>>, id_to_offset |-> m]
IndexPanicked(why, id) ==
    [kind |-> "panic", why |-> why, id |-> id, id_to_offset |-> <<>>]

\* String::pop: the string without its last character
Pop(s) == SubSeq(s, 1, Len(s) - 1)

\* global_offset += len, with len short of the line terminator
AddLen_WithoutTerminator(global_offset, len) == global_offset + len - 1

\* global_offset += len as u64
AddLen(global_offset, len) == global_offset + len

\* the while loop of FastaIndex::new: pos is the reader's position,
\* global_offset the running counter, res the map built so far
RECURSIVE IndexLoop(_, _, _, _, _, _)
IndexLoop(bytes, pos, global_offset, res, sep, i) ==
    LET line_buf == ReadLine(bytes, pos)
        len == Len(line_buf)
    IN IF len = 0 THEN IndexBuilt(res)
       ELSE IF StartsWithMarker(line_buf)
       THEN LET key == seq_id_from_description(Pop(line_buf), sep, i)
            IN IF ~key.ok THEN IndexPanicked(key.panic, <<>>)
               ELSE IF key.val \in DOMAIN res
               THEN IndexPanicked("Multiple entries found for id", key.val)
               ELSE IndexLoop(bytes, pos + len, AddLen(global_offset, len),
                              (key.val :> global_offset) @@ res, sep, i)
       ELSE IndexLoop(bytes, pos + len, AddLen(global_offset, len), res, sep, i)

\* FastaIndex::new(path, separator, id_index)
FastaIndex_new(text, isGz, sep, i) ==
    IF isGz
    THEN IndexPanicked("Tried to build index on non seekable compressed file", <<>>)
    ELSE IndexLoop(text, 0, 0, <<>>, sep, i)

----------------------------------------------------------------------------
(* pieces.rs: FastaEntry::from_index                                       *)

NoRetrieval ==
    [op |-> "none", offset |-> 0, ids |-> <<>>, kind |-> "none", why |-> "",
     description |-> <<>>, sequence |-> <<>>, id_to_seq |-> <<>>, seeks |-> 0]

\* the for loop over the lines after the description line, with the test
\* for a blank line left out of its break condition
RECURSIVE EntrySequence_NoBlankStop(_, _, _)
EntrySequence_NoBlankStop(disk, pos, sequence) ==
    LET l == LinesNext(disk, pos)
    IN IF ~l.some THEN Returned(sequence)
       ELSE IF ~ValidUtf8(l.val)
       THEN Panicked("stream did not contain valid UTF-8")
       ELSE IF StartsWithMarker(l.val) THEN Returned(sequence)
       ELSE EntrySequence_NoBlankStop(disk, LineEnd(disk, pos), sequence \o l.val)

\* the for loop over the lines after the description line
RECURSIVE EntrySequence(_, _, _)
EntrySequence(disk, pos, sequence) ==
    LET l == LinesNext(disk, pos)
    IN IF ~l.some THEN Returned(sequence)
       ELSE IF ~ValidUtf8(l.val)
       THEN Panicked("stream did not contain valid UTF-8")
       ELSE IF l.val = <<>> \/ StartsWithMarker(l.val) THEN Returned(sequence)
       ELSE EntrySequence(disk, LineEnd(disk, pos), sequence \o l.val)

\* FastaEntry::from_index(data, index): the path is opened with File::open,
\* whatever its extension
FastaEntry_from_index(disk, index) ==
    LET l == LinesNext(disk, index)
        base == [NoRetrieval EXCEPT !.op = "from_index", !.offset = index, !.seeks = 1]
    IN IF ~l.some
       THEN [base EXCEPT !.kind = "panic",
                         !.why = "called Option::unwrap() on a None value"]
       ELSE IF ~ValidUtf8(l.val)
       THEN [base EXCEPT !.kind = "panic",
                         !.why = "stream did not contain valid UTF-8"]
       ELSE IF ~StartsWithMarker(l.val)
       THEN [base EXCEPT !.kind = "err", !.why = "IndexNotAtDescription"]
       ELSE LET sq == EntrySequence(disk, LineEnd(disk, index), <<>>)
            IN IF ~sq.ok THEN [base EXCEPT !.kind = "panic", !.why = sq.panic]
               ELSE [base EXCEPT !.kind = "ok",
                                 !.description = SubSeq(l.val, 2, Len(l.val)),
                                 !.sequence = sq.val]

----------------------------------------------------------------------------
(* map.rs: FastaMap::from_index_with_ids                                   *)

\* the for loop over the lines read from the offset of one ID
RECURSIVE MapSequence(_, _, _, _)
MapSequence(bytes, pos, seen_header, seq_buf) ==
    LET l == LinesNext(bytes, pos)
    IN IF ~l.some THEN seq_buf
       ELSE IF StartsWithMarker(l.val)
       THEN IF seen_header THEN seq_buf
            ELSE MapSequence(bytes, LineEnd(bytes, pos), TRUE, seq_buf)
       ELSE IF l.val = <<>> THEN seq_buf
       ELSE MapSequence(bytes, LineEnd(bytes, pos), seen_header, seq_buf \o l.val)

\* fasta_handle.seek(SeekFrom::Start(v)) with a seek relative to where the
\* handle stands
SeekStart_FromCurrent(handle, v) == handle + v

\* fasta_handle.seek(SeekFrom::Start(v)): the handle's new position, which
\* does not depend on where the handle stood
SeekStart(handle, v) == v

\* where the handle stands after the lines loop that started at pos: the
\* BufReader wrapped around it has read ahead to the end of the file (the
\* files here are shorter than its buffer)
AfterScan(bytes, pos) == IF pos > Len(bytes) THEN pos ELSE Len(bytes)

\* the loop "for k in ids" over the one handle: an ID the index does not
\* hold is passed over
RECURSIVE MapIds(_, _, _, _, _, _)
MapIds(bytes, id_to_offset, ids, res, seeks, handle) ==
    IF ids = <<>> THEN [id_to_seq |-> res, seeks |-> seeks]
    ELSE LET k == Head(ids)
         IN IF k \in DOMAIN id_to_offset
            THEN LET pos == SeekStart(handle, id_to_offset[k])
                 IN MapIds(bytes, id_to_offset, Tail(ids),
                           (k :> MapSequence(bytes, pos, FALSE, <<>>)) @@ res,
                           seeks + 1, AfterScan(bytes, pos))
            ELSE MapIds(bytes, id_to_offset, Tail(ids), res, seeks, handle)

\* FastaMap::from_index_with_ids(path, index, ids)
FastaMap_from_index_with_ids(text, isGz, id_to_offset, ids) ==
    LET base == [NoRetrieval EXCEPT !.op = "from_index_with_ids", !.ids = ids]
    IN IF isGz
       THEN [base EXCEPT !.kind = "panic",
                         !.why = "Tried to use index on non seekable compressed file"]
       ELSE LET r == MapIds(text, id_to_offset, ids, <<>>, 0, 0)
            IN [base EXCEPT !.kind = "ok", !.id_to_seq = r.id_to_seq, !.seeks = r.seeks]

----------------------------------------------------------------------------
(* index.rs: FastaIndex::to_json and FastaIndex::from_json (serde_json)    *)

DigitChars == <<"0", "1", "2", "3", "4", "5", "6", "7", "8", "9">>

\* a u64 written in decimal
RECURSIVE FormatU64(_)
FormatU64(n) ==
    IF n < 10 THEN <<DigitChars[n + 1]>>
    ELSE FormatU64(n \div 10) \o <<DigitChars[(n % 10) + 1]>>

\* one character of a JSON string, written without any escaping
EscapeChar_Raw(c) == <<c>>

\* one character of a JSON string as serde_json writes it
EscapeChar(c) ==
    CASE c = "\"" -> <<"\\", "\"">>
      [] c = "\\" -> <<"\\", "\\">>
      [] c = "\n" -> <<"\\", "n">>
      [] c = "\r" -> <<"\\", "r">>
      [] OTHER -> <<c>>

\* a string as a JSON string literal
RECURSIVE EscapeChars(_)
EscapeChars(str) ==
    IF str = <<>> THEN <<>> ELSE EscapeChar(Head(str)) \o EscapeChars(Tail(str))

JsonString(str) == <<"\"">> \o EscapeChars(str) \o <<"\"">>

\* the entries "key":offset of the map, in the order the HashMap iterates,
\* separated by commas
RECURSIVE JsonEntries(_, _)
JsonEntries(m, order) ==
    IF order = <<>> THEN <<>>
    ELSE JsonString(Head(order)) \o <<":">> \o FormatU64(m[Head(order)])
         \o (IF Len(order) > 1 THEN <<",">> ELSE <<>>)
         \o JsonEntries(m, Tail(order))

FieldName == <<"i", "d", "_", "t", "o", "_", "o", "f", "f", "s", "e", "t">>

\* FastaIndex::to_json: the text serde_json::to_writer writes for the
\* struct, {"id_to_offset":{...}}; `order` is the HashMap's iteration order
FastaIndex_to_json(m, order) ==
    <<"{">> \o JsonString(FieldName) \o <<":", "{">>
    \o JsonEntries(m, order) \o <<"}", "}">>

\* a parser's outcome: the value read and the text left after it
Parsed(v, rest) == [ok |-> TRUE, val |-> v, rest |-> rest]
ParseError == [ok |-> FALSE, val |-> <<>>, rest |-> <<>>]

\* the characters of a string literal up to its closing quote, unescaped
RECURSIVE ParseChars(_, _)
ParseChars(t, acc) ==
    IF t = <<>> THEN ParseError
    ELSE IF t[1] = "\"" THEN Parsed(acc, Tail(t))
    ELSE IF t[1] = "\\"
    THEN IF Len(t) < 2 THEN ParseError
         ELSE IF t[2] = "\"" THEN ParseChars(SubSeq(t, 3, Len(t)), Append(acc, "\""))
         ELSE IF t[2] = "\\" THEN ParseChars(SubSeq(t, 3, Len(t)), Append(acc, "\\"))
         ELSE IF t[2] = "n" THEN ParseChars(SubSeq(t, 3, Len(t)), Append(acc, "\n"))
         ELSE IF t[2] = "r" THEN ParseChars(SubSeq(t, 3, Len(t)), Append(acc, "\r"))
         ELSE ParseError
    ELSE IF t[1] \in {"\n", "\r"} THEN ParseError
    ELSE ParseChars(Tail(t), Append(acc, t[1]))

\* a JSON string literal
ParseString(t) ==
    IF t # <<>> /\ t[1] = "\"" THEN ParseChars(Tail(t), <<>>) ELSE ParseError

IsDigit(c) == \E d \in 1..10 : DigitChars[d] = c
DigitValue(c) == (CHOOSE d \in 1..10 : DigitChars[d] = c) - 1

\* the digits of a number, most significant first
RECURSIVE ParseDigits(_, _)
ParseDigits(t, acc) ==
    IF t # <<>> /\ IsDigit(t[1])
    THEN ParseDigits(Tail(t), acc * 10 + DigitValue(t[1]))
    ELSE Parsed(acc, t)

\* a u64: one digit at least, no leading zero before another digit
ParseU64(t) ==
    IF t = <<>> \/ ~IsDigit(t[1]) THEN ParseError
    ELSE IF t[1] = "0" /\ Len(t) >= 2 /\ IsDigit(t[2]) THEN ParseError
    ELSE ParseDigits(t, 0)

\* the entries of a JSON object of numbers, after its opening brace; a
\* key met again replaces the earlier entry
RECURSIVE ParseEntries(_, _)
ParseEntries(t, acc) ==
    LET k == ParseString(t)
    IN IF ~k.ok \/ k.rest = <<>> \/ k.rest[1] # ":" THEN ParseError
       ELSE LET v == ParseU64(Tail(k.rest))
            IN IF ~v.ok \/ v.rest = <<>> THEN ParseError
               ELSE LET m == (k.val :> v.val) @@ acc
                    IN IF v.rest[1] = "}" THEN Parsed(m, Tail(v.rest))
                       ELSE IF v.rest[1] = "," THEN ParseEntries(Tail(v.rest), m)
                       ELSE ParseError

\* a JSON object holding a HashMap<String, u64>
ParseMap(t) ==
    IF t = <<>> \/ t[1] # "{" THEN ParseError
    ELSE IF Len(t) >= 2 /\ t[2] = "}" THEN Parsed(<<>>, SubSeq(t, 3, Len(t)))
    ELSE ParseEntries(Tail(t), <<>>)

NotLoaded == [kind |-> "none", id_to_offset |-> <<>>]

\* FastaIndex::from_json: serde_json::from_str on the text of the file, for
\* the struct with the one field id_to_offset
FastaIndex_from_json(t) ==
    LET failed == [kind |-> "err", id_to_offset |-> <<>>]
    IN IF t = <<>> \/ t[1] # "{" THEN failed
       ELSE LET name == ParseString(Tail(t))
            IN IF ~name.ok \/ name.val # FieldName
                  \/ name.rest = <<>> \/ name.rest[1] # ":" THEN failed
               ELSE LET m == ParseMap(Tail(name.rest))
                    IN IF m.ok /\ m.rest = <<"}">>
                       THEN [kind |-> "ok", id_to_offset |-> m.val]
                       ELSE failed

----------------------------------------------------------------------------
(* The streaming specification: a caller constructs a FastaReader over the *)
(* file and calls next() repeatedly.                                       *)

\* no next() call has been made yet
NoCall == [called |-> FALSE, some |-> FALSE, val |-> <<>>]

\* a next() call has returned None
Exhausted == lastRet.called /\ ~lastRet.some

InitReader ==
    /\ file \in Files
    /\ gz = FALSE
    /\ reader = Unopened
    /\ yielded = <<>>
    /\ lastRet = NoCall
    /\ extra = 0
    /\ idx = NoIndex /\ out = NoRetrieval
    /\ line = <<>> /\ separator = <<>> /\ id_index = 0 /\ result = "unused"
    /\ jidx = <<>> /\ jfile = <<>> /\ jloaded = NotLoaded

\* let reader = FastaReader::new(path)
ReaderNew ==
    /\ reader.phase = "unopened"
    /\ reader' = FastaReader_new(file)
    /\ UNCHANGED <<file, yielded, lastRet, extra, indexVars, idVars, jsonVars>>

\* one call of reader.next(); the caller keeps the record it is handed
ReaderNext ==
    /\ reader.phase = "ready"
    /\ extra < MaxExtraCalls
    /\ LET r == FastaReader_next(file, reader)
       IN /\ reader' = r.rd
          /\ lastRet' = [called |-> TRUE, some |-> r.ret.some, val |-> r.ret.val]
          /\ yielded' = IF r.ret.some THEN Append(yielded, r.ret.val) ELSE yielded
          /\ extra' = IF Exhausted THEN extra + 1 ELSE extra
    /\ UNCHANGED <<file, indexVars, idVars, jsonVars>>

NextReader == ReaderNew \/ ReaderNext

SpecReader == InitReader /\ [][NextReader]_vars

\* the same program driven by a caller that keeps calling next(), as a
\* `for record in reader` loop or a collect() does
SpecReaderLive ==
    InitReader /\ [][NextReader]_vars /\ WF_vars(ReaderNew) /\ WF_vars(ReaderNext)

----------------------------------------------------------------------------
(* The extraction specification: seq_id_from_description is called once on *)
(* a line, a separator and a field index.                                  *)

\* longest line handed to seq_id_from_description
MaxLineLen == 4
\* longest separator
MaxSepLen == 2
\* largest id_index
MaxIdIndex == 2

\* the characters of a description line
LineAlphabet == {">", "|", "A"}

LineTexts == UNION {[1..n -> LineAlphabet] : n \in 0..MaxLineLen}

\* separators are not empty
Separators == UNION {[1..n -> {"|", "A"}] : n \in 1..MaxSepLen}

NotCalled == [called |-> FALSE, ok |-> FALSE, val |-> <<>>, panic |-> ""]

InitId ==
    /\ line \in LineTexts
    /\ separator \in Separators
    /\ id_index \in 0..MaxIdIndex
    /\ result = NotCalled
    /\ file = <<>> /\ gz = FALSE
    /\ reader = Unopened /\ yielded = <<>> /\ lastRet = NoCall /\ extra = 0
    /\ idx = NoIndex /\ out = NoRetrieval
    /\ jidx = <<>> /\ jfile = <<>> /\ jloaded = NotLoaded

\* let id = seq_id_from_description(line, separator, id_index)
ExtractId ==
    /\ ~result.called
    /\ LET r == seq_id_from_description(line, separator, id_index)
       IN result' = [called |-> TRUE, ok |-> r.ok, val |-> r.val, panic |-> r.panic]
    /\ UNCHANGED <<file, readerVars, indexVars, line, separator, id_index, jsonVars>>

NextId == ExtractId

SpecId == InitId /\ [][NextId]_vars

----------------------------------------------------------------------------
(* The random-access specification: over one source file a caller builds   *)
(* the offset index once and retrieves entries, singly by offset or in a   *)
(* batch by ID.                                                            *)

\* longest list of IDs handed to from_index_with_ids
MaxIds == 2

\* the separator the index is built with
IndexSeparators == {<<"|">>}

\* the IDs a caller asks for
RequestIds == {<<>>, <<"A">>}

IdLists == UNION {[1..n -> RequestIds] : n \in 0..MaxIds}

\* the longest tail of a .gz file after its first three bytes
MaxGzTail == 3

\* bytes of such a tail: a one-byte character, the marker, a line feed, the
\* lead and a continuation byte of a three-byte character, and a byte no
\* UTF-8 text holds
GzTailBytes == {"0x00", ">", "\n", "0xe3", "0xb2", "0xff"}

\* the .gz files: what a gzip writer put at the path
GzFiles == {GzMagic \o t : t \in UNION {[1..n -> GzTailBytes] : n \in 0..MaxGzTail}}

InitIndex ==
    /\ \/ gz = FALSE /\ file \in Files
       \/ gz = TRUE /\ file \in GzFiles
    /\ idx = NoIndex
    /\ out = NoRetrieval
    /\ separator = <<>> /\ id_index = 0
    /\ line = <<>> /\ result = NotCalled
    /\ reader = Unopened /\ yielded = <<>> /\ lastRet = NoCall /\ extra = 0
    /\ jidx = <<>> /\ jfile = <<>> /\ jloaded = NotLoaded

\* let index = FastaIndex::new(path, separator, id_index)
IndexNew ==
    /\ idx.kind = "none"
    /\ \E sep \in IndexSeparators, i \in 0..MaxIdIndex :
          /\ idx' = FastaIndex_new(file, gz, sep, i)
          /\ separator' = sep
          /\ id_index' = i
    /\ UNCHANGED <<file, gz, out, readerVars, line, result, jsonVars>>

\* FastaEntry::from_index(path, offset), for any offset; a behaviour holds
\* one retrieval call, made before or after the index is built
EntryFromIndex ==
    /\ out.op = "none"
    /\ \E offset \in 0..(Len(file) + 1) :
          out' = FastaEntry_from_index(file, offset)
    /\ UNCHANGED <<file, gz, idx, readerVars, idVars, jsonVars>>

\* FastaMap::from_index_with_ids(path, &index, ids)
MapFromIndexWithIds ==
    /\ out.op = "none"
    /\ idx.kind = "ok"
    /\ \E ids \in IdLists :
          out' = FastaMap_from_index_with_ids(file, gz, idx.id_to_offset, ids)
    /\ UNCHANGED <<file, gz, idx, readerVars, idVars, jsonVars>>

NextIndex == IndexNew \/ EntryFromIndex \/ MapFromIndexWithIds

SpecIndex == InitIndex /\ [][NextIndex]_vars

----------------------------------------------------------------------------
(* The persistence specification: an index is written with to_json and the *)
(* file is read back with from_json.                                       *)

\* most keys in a persisted index
MaxKeys == 2

\* the keys of a persisted index: plain ones, and ones with the characters
\* JSON escapes or uses as punctuation
JsonKeys ==
    {<<>>, <<"A">>, <<"Q", "2">>, <<"\"">>, <<"\\">>, <<"\\", "n">>,
     <<"A", "\r">>, <<"}", ",">>, <<":", "{">>}

\* the offsets of a persisted index
JsonOffsets == {0, 9, 10, 2764}

Indexes ==
    UNION {[ks -> JsonOffsets] : ks \in {k \in SUBSET JsonKeys : Cardinality(k) <= MaxKeys}}

\* the orders in which a HashMap with key set ks can iterate
Orders(ks) ==
    {o \in [1..Cardinality(ks) -> ks] : \A a, b \in 1..Cardinality(ks) : o[a] = o[b] => a = b}

InitJson ==
    /\ jidx \in Indexes
    /\ jfile = <<>>
    /\ jloaded = NotLoaded
    /\ file = <<>> /\ gz = FALSE
    /\ reader = Unopened /\ yielded = <<>> /\ lastRet = NoCall /\ extra = 0
    /\ idx = NoIndex /\ out = NoRetrieval
    /\ line = <<>> /\ separator = <<>> /\ id_index = 0 /\ result = NotCalled

\* index.to_json(path)
ToJson ==
    /\ jfile = <<>>
    /\ \E order \in Orders(DOMAIN jidx) : jfile' = FastaIndex_to_json(jidx, order)
    /\ UNCHANGED <<jidx, jloaded, file, readerVars, indexVars, idVars>>

\* FastaIndex::from_json(path) on the file to_json wrote
FromJson ==
    /\ jfile # <<>>
    /\ jloaded.kind = "none"
    /\ jloaded' = FastaIndex_from_json(jfile)
    /\ UNCHANGED <<jidx, jfile, file, readerVars, indexVars, idVars>>

NextJson == ToJson \/ FromJson

SpecJson == InitJson /\ [][NextJson]_vars

----------------------------------------------------------------------------
(* Retrieval through a persisted index: the index file was written at some *)
(* earlier time and the FASTA file may have been edited since, so the      *)
(* offsets loaded need not be the offsets of description lines.            *)

\* the FASTA files of this specification
StoreFiles == UNION {[1..n -> {">", "A", "\n"}] : n \in 0..MaxLen}

\* the indexes an index file can have been written from
StoredIndexes == UNION {[ks -> 0..MaxLen] : ks \in SUBSET RequestIds}

\* the index files on disk: what to_json wrote for such an index
IndexFiles ==
    {FastaIndex_to_json(m, order) : <<m, order>> \in
        {mo \in StoredIndexes \X UNION {Orders(ks) : ks \in SUBSET RequestIds} :
            mo[2] \in Orders(DOMAIN mo[1])}}

InitStore ==
    /\ file \in StoreFiles
    /\ gz = FALSE
    /\ jfile \in IndexFiles
    /\ jidx = <<>> /\ jloaded = NotLoaded
    /\ idx = NoIndex
    /\ out = NoRetrieval
    /\ separator = <<>> /\ id_index = 0
    /\ line = <<>> /\ result = NotCalled
    /\ reader = Unopened /\ yielded = <<>> /\ lastRet = NoCall /\ extra = 0

\* let index = FastaIndex::from_json(path)
IndexFromJson ==
    /\ idx.kind = "none"
    /\ LET loaded == FastaIndex_from_json(jfile)
       IN /\ loaded.kind = "ok"
          /\ idx' = IndexBuilt(loaded.id_to_offset)
    /\ UNCHANGED <<file, gz, out, readerVars, idVars, jsonVars>>

NextStore == IndexFromJson \/ MapFromIndexWithIds

SpecStore == InitStore /\ [][NextStore]_vars

----------------------------------------------------------------------------
(* What a source file says, read off its bytes: where its description      *)
(* lines start and which bytes belong to which record.                     *)

\* the byte offsets at which a description line starts: a '>' that is the
\* first byte of the file or follows a "\n"
DescOffsets(bytes) ==
    {o \in 0..(Len(bytes) - 1) : bytes[o + 1] = ">" /\ (o = 0 \/ bytes[o] = "\n")}

NumDescriptionLines(bytes) == Cardinality(DescOffsets(bytes))

\* the offset of the i-th description line, i = 1, 2, ...
NthDescOffset(bytes, i) ==
    CHOOSE o \in DescOffsets(bytes) :
        Cardinality({p \in DescOffsets(bytes) : p < o}) = i - 1

\* the 1-based rank of description offset o among the description lines
DescRank(bytes, o) == Cardinality({p \in DescOffsets(bytes) : p <= o})

\* a byte that is a line terminator or part of one: "\n", or "\r" right
\* before "\n"
IsTerminatorByte(bytes, j) ==
    \/ bytes[j] = "\n"
    \/ bytes[j] = "\r" /\ j < Len(bytes) /\ bytes[j + 1] = "\n"

\* bytes[lo..hi] with the line-terminator bytes taken out
RECURSIVE Kept(_, _, _)
Kept(bytes, lo, hi) ==
    IF lo > hi THEN <<>>
    ELSE (IF IsTerminatorByte(bytes, lo) THEN <<>> ELSE <<bytes[lo]>>)
         \o Kept(bytes, lo + 1, hi)

\* the index of the last byte of the line that starts at offset o
LastByteOfLine(bytes, o) ==
    LET nl == {j \in (o + 1)..Len(bytes) : bytes[j] = "\n"}
    IN IF nl = {} THEN Len(bytes) ELSE CHOOSE j \in nl : \A k \in nl : j <= k

\* the text of the line that starts at offset o, without its terminator
LineTextAt(bytes, o) == Kept(bytes, o + 1, LastByteOfLine(bytes, o))

\* the index of the last byte before the next description line (or of the
\* file) for the record whose description line starts at offset o
LastByteOfRecord(bytes, o) ==
    LET later == {p \in DescOffsets(bytes) : p > o}
    IN IF later = {} THEN Len(bytes) ELSE CHOOSE p \in later : \A q \in later : p <= q

\* every non-description line of the record at offset o, concatenated
RecordSequenceAt(bytes, o) ==
    Kept(bytes, LastByteOfLine(bytes, o) + 1, LastByteOfRecord(bytes, o))

----------------------------------------------------------------------------
(* Claims about the streaming decoder, checked under SpecReader.           *)

\* C1: once iteration is exhausted (next() has returned None), the number
\* of records yielded equals the number of description lines of the input,
\* description lines without sequence lines included.
C1_RecordCountEqualsDescriptionLines ==
    Exhausted => Len(yielded) = NumDescriptionLines(file)

\* C4: the i-th record yielded carries the text of the i-th description
\* line and, as sequence, the in-order concatenation of exactly the lines
\* between that description line and the next one (or end of input),
\* without line breaks; lines before the first description line are in no
\* record.
C4_RecordsCarryTheirOwnLines ==
    \A i \in 1..Len(yielded) :
        /\ i <= NumDescriptionLines(file)
        /\ LET o == NthDescOffset(file, i)
           IN yielded[i] = <<LineTextAt(file, o), RecordSequenceAt(file, o)>>
        /\ \A j \in 1..Len(yielded[i][2]) : yielded[i][2][j] # "\n"

\* two records have been yielded, the second with sequence data, from a
\* file whose first record has none
C4_Witness ==
    /\ Len(yielded) = 2
    /\ yielded[1][2] = <<>>
    /\ yielded[2][2] # <<>>

\* C9: after a next() call that has consumed the input to its end, the
\* description that was pending there has been emitted as a record, also
\* when no sequence line followed it.
C9_FinalPendingRecordEmitted ==
    (reader.phase = "ready" /\ lastRet.called /\ reader.pos >= Len(file))
        => Len(yielded) = Cardinality({o \in DescOffsets(file) : o < reader.pos})

----------------------------------------------------------------------------
(* Claims about accession extraction, checked under SpecId.                *)

\* concatenation of the fields with `sep` between them
RECURSIVE Join(_, _)
Join(fields, sep) ==
    IF Len(fields) = 1 THEN fields[1]
    ELSE fields[1] \o sep \o Join(Tail(fields), sep)

\* `fields` is the line split on `sep`: joining the fields with the
\* separator gives the line back, each cut is at the first place the
\* separator occurs in what was left, and the last field holds none
IsSplitOf(fields, l, sep) ==
    /\ Len(fields) >= 1
    /\ Join(fields, sep) = l
    /\ \A k \in 1..(Len(fields) - 1) :
           MatchesIn(fields[k] \o sep, sep) = {Len(fields[k]) + 1}
    /\ MatchesIn(fields[Len(fields)], sep) = {}

\* the sequences of n fields, each a piece of the line l
FieldLists(l, n) ==
    [1..n -> {SubSeq(l, a, b) : a \in 1..(Len(l) + 1), b \in 0..Len(l)}]

\* ">Q2HZH0" and ">sp|Q2HZH0|IL1B_PUSHI", the lines of helpers.rs's tests
ShortDescr == <<">", "Q", "2", "H", "Z", "H", "0">>
LongDescr ==
    <<">", "s", "p", "|", "Q", "2", "H", "Z", "H", "0", "|",
      "I", "L", "1", "B", "_", "P", "U", "S", "H", "I">>

\* C10: a returned accession of a description line is, when the line
\* contains the separator, the id_index-th field of the line split on the
\* separator, without its leading '>' only when id_index = 0, and else the
\* whole line without its leading '>'; ">Q2HZH0" and ">sp|Q2HZH0|..." both
\* give "Q2HZH0" for separator "|" and id_index 1.
C10_AccessionIsTheIndexedField ==
    /\ (result.called /\ result.ok /\ StartsWithMarker(line)) =>
           IF Contains(line, separator)
           THEN \E n \in (id_index + 1)..(Len(line) + 1) :
                  \E fields \in FieldLists(line, n) :
                     /\ IsSplitOf(fields, line, separator)
                     /\ result.val = IF id_index = 0
                                     THEN SubSeq(fields[1], 2, Len(fields[1]))
                                     ELSE fields[id_index + 1]
           ELSE result.val = SubSeq(line, 2, Len(line))
    /\ result.called =>
           /\ seq_id_from_description(ShortDescr, <<"|">>, 1)
                 = Returned(<<"Q", "2", "H", "Z", "H", "0">>)
           /\ seq_id_from_description(LongDescr, <<"|">>, 1)
                 = Returned(<<"Q", "2", "H", "Z", "H", "0">>)

\* an accession was returned for a line that contains the separator more
\* than once, from a field that is neither the first nor the last
C10_Witness ==
    /\ result.called /\ result.ok
    /\ StartsWithMarker(line)
    /\ Cardinality(MatchesIn(line, separator)) >= 2
    /\ id_index = 1
    /\ result.val # <<>>

----------------------------------------------------------------------------
(* Claims about the offset index and random access, checked under          *)
(* SpecIndex.                                                              *)

\* the offsets an index holds
Offsets(m) == {m[k] : k \in DOMAIN m}

\* the accession of the description line at offset o, derived from the
\* text of the line
AccessionAt(bytes, o, sep, i) == seq_id_from_description(LineTextAt(bytes, o), sep, i)

\* C2: in an index built over a plain file every stored offset is the
\* first byte of a description line (the bytes before it are whole lines,
\* terminators included), every description line has its offset stored,
\* from_index at a stored offset returns the text of that description line
\* without the marker, and a description line at the start of the file is
\* stored with offset 0.
C2_OffsetsPointAtDescriptionLines ==
    (idx.kind = "ok") =>
        /\ ~gz
        /\ Offsets(idx.id_to_offset) = DescOffsets(file)
        /\ \A k \in DOMAIN idx.id_to_offset :
              LET o == idx.id_to_offset[k]
              IN /\ o = 0 \/ file[o] = "\n"
                 /\ (out.op = "from_index" /\ out.offset = o) =>
                       /\ out.kind = "ok"
                       /\ <<">">> \o out.description = LineTextAt(file, o)
        /\ StartsWithMarker(file) => 0 \in Offsets(idx.id_to_offset)

\* an index with two keys was built and from_index has read the entry at
\* the later offset
C2_Witness ==
    /\ idx.kind = "ok"
    /\ Cardinality(DOMAIN idx.id_to_offset) = 2
    /\ out.op = "from_index" /\ out.kind = "ok"
    /\ out.offset > 0
    /\ out.offset \in Offsets(idx.id_to_offset)
    /\ out.description # <<>>

\* C3: for every record the streaming reader yields, retrieval at the
\* record's indexed offset (from_index, and from_index_with_ids for its
\* ID) returns the sequence the reader yields for it, blank lines between
\* sequence lines or not.
C3_RandomAccessAgreesWithStreaming ==
    (idx.kind = "ok") =>
        \A k \in DOMAIN idx.id_to_offset :
            LET o == idx.id_to_offset[k]
                n == DescRank(file, o)
                streamed == ReaderRecords(file).records
            IN n <= Len(streamed) =>
                 /\ (out.op = "from_index" /\ out.offset = o /\ out.kind = "ok")
                       => out.sequence = streamed[n][2]
                 /\ (out.op = "from_index_with_ids" /\ out.kind = "ok"
                        /\ k \in DOMAIN out.id_to_seq)
                       => out.id_to_seq[k] = streamed[n][2]

\* C5: when two description lines derive the same accession, index
\* building fails, reporting a duplicate of that accession, and returns no
\* index; an index that is returned has one entry per description line.
C5_DuplicateAccessionFails ==
    (idx.kind # "none" /\ ~gz) =>
        /\ \A o1, o2 \in DescOffsets(file) :
              LET a1 == AccessionAt(file, o1, separator, id_index)
                  a2 == AccessionAt(file, o2, separator, id_index)
              IN (o1 < o2 /\ a1.ok /\ a2.ok /\ a1.val = a2.val) =>
                    /\ idx.kind = "panic"
                    /\ idx.why = "Multiple entries found for id"
                    /\ \E p1, p2 \in DescOffsets(file) :
                          /\ p1 < p2
                          /\ AccessionAt(file, p1, separator, id_index) = Returned(idx.id)
                          /\ AccessionAt(file, p2, separator, id_index) = Returned(idx.id)
        /\ idx.kind = "ok" =>
              Cardinality(DOMAIN idx.id_to_offset) = NumDescriptionLines(file)

\* C6: a batch retrieval asked for an ID the index does not hold reports a
\* missing-accession failure for that ID, instead of returning a result
\* from which the ID is absent.
C6_MissingAccessionReported ==
    (out.op = "from_index_with_ids" /\ ~gz) =>
        \A j \in 1..Len(out.ids) :
            out.ids[j] \notin DOMAIN idx.id_to_offset =>
                /\ out.kind = "err"
                /\ out.why = "MissingAccession"

\* C7: over a .gz source, index building, batch retrieval and from_index
\* all fail for the source being unseekable, before any seek and before
\* any byte is read as record text.
C7_CompressedSourceRefused ==
    gz =>
        /\ idx.kind # "none" =>
              /\ idx.kind = "panic"
              /\ idx.why = "Tried to build index on non seekable compressed file"
        /\ out.op # "none" =>
              /\ out.kind \in {"panic", "err"}
              /\ out.why \in {"Tried to use index on non seekable compressed file",
                               "UnseekableSource"}
              /\ out.seeks = 0

----------------------------------------------------------------------------
(* Claims about index persistence, checked under SpecJson.                 *)

\* C8: from_json on the file written by to_json succeeds and returns an
\* index with the key set and the offsets of the index that was written.
C8_JsonRoundTrip ==
    (jloaded.kind # "none") =>
        /\ jloaded.kind = "ok"
        /\ DOMAIN jloaded.id_to_offset = DOMAIN jidx
        /\ \A k \in DOMAIN jidx : jloaded.id_to_offset[k] = jidx[k]

\* an index of two keys, one of them with a character JSON escapes, was
\* written and loaded
C8_Witness ==
    /\ jloaded.kind = "ok"
    /\ Cardinality(DOMAIN jidx) = 2
    /\ \E k \in DOMAIN jidx :
          /\ \E j \in 1..Len(k) : k[j] \in {"\"", "\\", "\r"}
          /\ jidx[k] = 2764

----------------------------------------------------------------------------
(* Claims about failures of extraction and of the decoder.                 *)

\* C11 (under SpecId): for a line that contains the separator but has
\* fewer than id_index + 1 fields, extraction ends without a panic and
\* without a value: it reports an error.
C11_ShortLineIsAnErrorValue ==
    (result.called /\ StartsWithMarker(line) /\ Contains(line, separator)
       /\ Len(Split(line, separator)) < id_index + 1) =>
        /\ ~result.ok
        /\ result.panic = ""

\* C14 (under SpecReader): when the input holds no description line, the
\* decoder reports the malformed input as an error value: construction
\* does not panic, and no record is yielded.
C14_NoDescriptionIsAnErrorValue ==
    (reader.phase # "unopened" /\ NumDescriptionLines(file) = 0) =>
        /\ reader.phase = "failed"
        /\ yielded = <<>>

----------------------------------------------------------------------------
(* Claims about retrieval at an offset, checked under SpecIndex.           *)

\* the offsets at which a line starts
LineStarts(bytes) ==
    {p \in 0..(Len(bytes) - 1) : p = 0 \/ bytes[p] = "\n"}

\* the line starting at offset p is blank or a description line
EndsRecord(bytes, p) ==
    \/ bytes[p + 1] = ">"
    \/ bytes[p + 1] = "\n"
    \/ bytes[p + 1] = "\r" /\ p + 2 <= Len(bytes) /\ bytes[p + 2] = "\n"

\* the number of bytes before the first blank or description line that
\* follows the description line at offset o (the file's length if none)
SequenceEnd(bytes, o) ==
    LET stops == {p \in LineStarts(bytes) : p > o /\ EndsRecord(bytes, p)}
    IN IF stops = {} THEN Len(bytes) ELSE CHOOSE p \in stops : \A q \in stops : p <= q

\* the lines after the description line at offset o, up to that line
RetrievedSequenceAt(bytes, o) ==
    Kept(bytes, LastByteOfLine(bytes, o) + 1, SequenceEnd(bytes, o))

\* C13: retrieval at the offset of a description line returns as sequence
\* the in-order concatenation of the lines after it up to, and without,
\* the first line that is blank or begins with the marker (or the end of
\* the file); nothing from that line on is in the sequence.
C13_SequenceStopsAtBlankOrDescription ==
    ~gz =>
        /\ (out.op = "from_index" /\ out.offset \in DescOffsets(file)) =>
              /\ out.kind = "ok"
              /\ out.sequence = RetrievedSequenceAt(file, out.offset)
        /\ (out.op = "from_index_with_ids" /\ idx.kind = "ok") =>
              \A k \in DOMAIN out.id_to_seq :
                  out.id_to_seq[k] = RetrievedSequenceAt(file, idx.id_to_offset[k])

\* from_index has returned sequence data for a record that a blank line
\* ends
C13_Witness ==
    /\ ~gz
    /\ out.op = "from_index" /\ out.kind = "ok"
    /\ out.offset \in DescOffsets(file)
    /\ out.sequence # <<>>
    /\ SequenceEnd(file, out.offset) < Len(file)
    /\ file[SequenceEnd(file, out.offset) + 1] # ">"

\* C16: for every offset, from_index either returns a record whose
\* description is the description line that starts at that offset, or,
\* when no description line starts there, the error IndexNotAtDescription;
\* it never panics.
C16_AnyOffsetGivesRecordOrError ==
    (out.op = "from_index" /\ ~gz) =>
        IF out.offset \in DescOffsets(file)
        THEN /\ out.kind = "ok"
             /\ <<">">> \o out.description = LineTextAt(file, out.offset)
        ELSE /\ out.kind = "err"
             /\ out.why = "IndexNotAtDescription"

\* C18: for every description line, the final one without a line break
\* included, the index holds at the line's offset the accession that
\* seq_id_from_description derives from the text of the line without its
\* terminator, which is the accession the streaming path derives.
C18_KeyIsAccessionOfTheLineText ==
    (idx.kind = "ok") =>
        \A o \in DescOffsets(file) :
            LET a == AccessionAt(file, o, separator, id_index)
            IN /\ a.ok
               /\ a.val \in DOMAIN idx.id_to_offset
               /\ idx.id_to_offset[a.val] = o

----------------------------------------------------------------------------
(* Termination of the streaming decoder, checked under SpecReaderLive.     *)

\* C15: a reader that was opened and is called repeatedly eventually
\* returns None; once None has been returned every later call returns None
\* and hands out nothing; and the i-th record handed out carries the i-th
\* description line, so that no description line is in two records.
C15_IterationEndsAndStaysEnded ==
    /\ (reader.phase = "ready") ~> Exhausted
    /\ [][Exhausted => (Exhausted' /\ yielded' = yielded)]_vars
    /\ [](/\ Len(yielded) <= NumDescriptionLines(file)
          /\ \A i \in 1..Len(yielded) :
                yielded[i][1] = LineTextAt(file, NthDescOffset(file, i)))

\* two records were handed out, then None, and next() was called again
\* after that
C15_Witness ==
    /\ Exhausted
    /\ Len(yielded) = 2
    /\ extra >= 1

----------------------------------------------------------------------------
(* Claims about batch retrieval through a loaded index, checked under      *)
(* SpecStore.                                                              *)

\* the IDs of the request that the index holds
FoundIds == {out.ids[n] : n \in DOMAIN out.ids} \cap DOMAIN idx.id_to_offset

\* C12: when the first line read at the offset recorded for a requested ID
\* does not begin with '>', from_index_with_ids fails with
\* IndexNotAtDescription and stores no sequence for that ID.
C12_StaleOffsetFailsWithIndexNotAtDescription ==
    (out.op = "from_index_with_ids" /\ idx.kind = "ok") =>
        \A k \in FoundIds :
            LET o == idx.id_to_offset[k]
            IN (o < Len(file) /\ file[o + 1] # ">") =>
                  /\ out.kind = "err"
                  /\ out.why = "IndexNotAtDescription"
                  /\ k \notin DOMAIN out.id_to_seq

\* C17: the keys of the result are the requested IDs that the index holds,
\* and the sequence stored for each is the one a retrieval of that ID
\* alone returns, whatever the order of the list and whatever other IDs,
\* repeated or missing, are in it.
C17_BatchEqualsSingleRetrievals ==
    (out.op = "from_index_with_ids" /\ idx.kind = "ok") =>
        /\ DOMAIN out.id_to_seq = FoundIds
        /\ \A k \in FoundIds :
              out.id_to_seq[k] =
                 FastaMap_from_index_with_ids(file, gz, idx.id_to_offset, <<k>>).id_to_seq[k]

\* a batch of two different IDs, both in the index, has returned two
\* different sequences, the second one read from before the place where
\* the first scan ended
C17_Witness ==
    /\ out.op = "from_index_with_ids" /\ out.kind = "ok"
    /\ Len(out.ids) = 2 /\ out.ids[1] # out.ids[2]
    /\ FoundIds = {out.ids[1], out.ids[2]}
    /\ out.id_to_seq[out.ids[1]] # <<>>
    /\ out.id_to_seq[out.ids[2]] # <<>>
    /\ out.id_to_seq[out.ids[1]] # out.id_to_seq[out.ids[2]]
    /\ idx.id_to_offset[out.ids[2]] < idx.id_to_offset[out.ids[1]]

====
